---- MODULE Spec2Model ----
(***************************************************************************)
(* A model of pichu.py: pseudo-legal move generation on the shared 8x8     *)
(* board, the make/unmake protocol of Move, the lazily expanded tree of    *)
(* State objects, the evaluator, alpha-beta search and the iterative       *)
(* deepening driver loop.                                                  *)
(*                                                                         *)
(* Numbers.  Every weight of the program is a multiple of 0.25 (piece      *)
(* weights 1.0 .. 200.0, square values 0.25 / 0.5 / 1.0), so every score   *)
(* the program computes is an exact binary fraction.  The model holds each *)
(* score in units of 1/Quarter: pieces_wgt and square_values are the       *)
(* program's tables multiplied by Quarter, and evaluate multiplies the     *)
(* pawn count by Quarter.  Comparisons of scores are unchanged by this.    *)
(* float('inf') is Inf, larger than any score a 64-cell board can get.     *)
(***************************************************************************)
EXTENDS Integers, Sequences, FiniteSets, TLC

\* ------------------------------------------------------------------ bounds
\* the driver runs d = 2 .. 101; the model stops after round MaxRound
MaxRound == 3
\* pieces added to a scenario board before move generation (SpecGen)
MaxExtra == 1

\* ------------------------------------------------------- program constants
N == 8
Quarter == 4
Inf == 1000000
FirstRound == 2
material_wgt == 10
pawn_structure_wgt == 1
mobility_wgt == 5

white_pieces == {"P", "R", "B", "Q", "K", "N"}
black_pieces == {"p", "r", "b", "q", "k", "n"}
single_move_pieces == {"N", "n", "K", "k"}

Rows == 0 .. (N - 1)
Cells == Rows \X Rows

Abs(x) == IF x < 0 THEN -x ELSE x
Max(x, y) == IF x >= y THEN x ELSE y
Min(x, y) == IF x <= y THEN x ELSE y

\* pieces_wgt, in units of 1/Quarter
pieces_wgt(p) ==
  CASE p = "P" -> 4    [] p = "B" -> 14   [] p = "N" -> 14
    [] p = "R" -> 21   [] p = "Q" -> 40   [] p = "K" -> 800
    [] p = "p" -> -4   [] p = "b" -> -14  [] p = "n" -> -14
    [] p = "r" -> -21  [] p = "q" -> -40  [] p = "k" -> -800

\* key in square_values
in_square_values(r, c) == r \in 2 .. 5 /\ c \in 1 .. 6

\* square_values[key], in units of 1/Quarter
square_values(r, c) ==
  IF c = 1 \/ c = 6 THEN 1
  ELSE IF r \in 3 .. 4 /\ c \in 3 .. 4 THEN 4
  ELSE 2

\* --------------------------------------------------------------------- Move
\* Move(): two dicts keyed by cell
NewMove == [changes |-> <<>>, undo_changes |-> <<>>]

\* Move.add_change: the undo value is read from the board when the move is built
add_change(m, b, r, c, piece) ==
  [changes |-> (<<r, c>> :> piece) @@ m.changes,
   undo_changes |-> (<<r, c>> :> b[r, c]) @@ m.undo_changes]

\* Move.make: board[r][c] = changes[r, c] for every key of changes
make(b, m) ==
  [x \in DOMAIN b |-> IF x \in DOMAIN m.changes THEN m.changes[x] ELSE b[x]]

\* an unmake that restores nothing
unmake_nothing(b, m) == b

\* an unmake that restores the destination and forgets the origin
unmake_dest_only(b, m) ==
  [x \in DOMAIN b |->
     IF x \in DOMAIN m.changes /\ m.changes[x] # "." THEN m.undo_changes[x] ELSE b[x]]

\* Move.unmake: board[r][c] = undo_changes[r, c] for every key of changes
unmake(b, m) ==
  [x \in DOMAIN b |-> IF x \in DOMAIN m.changes THEN m.undo_changes[x] ELSE b[x]]

\* the two add_change calls every generator makes: destination, then origin
BuildMove(b, r, c, r1, c1, piece) ==
  add_change(add_change(NewMove, b, r1, c1, piece), b, r, c, ".")

\* The statements of the program run one after another on one list.  TLC computes
\* an operator's argument each time it is used and only then; a bound variable is
\* computed once, when it is bound.  Then(moves, Rest) computes the list the
\* statements so far have built and hands it to the statements that follow.
Then(moves, Rest(_)) == CHOOSE out \in {Rest(ms) : ms \in {moves}} : TRUE

\* moves.insert(0, move)
InsertFront(moves, m) == <<m>> \o moves

\* ----------------------------------------------------------- move generation
\* a pawn capture that is appended instead of inserted at the front
PawnCaptureAppend(moves, m) == Append(moves, m)

\* lines 104, 111, 136, 143: moves.insert(0, move) of a pawn's diagonal capture
PawnCaptureInsert(moves, m) == InsertFront(moves, m)

\* a pawn that takes whatever stands on the diagonal
TakesAnything(b, r1, c1, enemy) == b[r1, c1] # "."

\* lines 100, 107, 132, 139: board[r1][c +- 1] in black_pieces / white_pieces
Takes(b, r1, c1, enemy) == b[r1, c1] \in enemy

wp_moves(moves, b, r, c) ==
  LET r1 == r + 1 IN
  IF r1 < N THEN
    LET m1 == IF c + 1 < N /\ Takes(b, r1, c + 1, black_pieces)
              THEN PawnCaptureInsert(moves,
                     BuildMove(b, r, c, r1, c + 1, IF r1 = 7 THEN "Q" ELSE "P"))
              ELSE moves
        m2 == IF c - 1 > -1 /\ Takes(b, r1, c - 1, black_pieces)
              THEN PawnCaptureInsert(m1,
                     BuildMove(b, r, c, r1, c - 1, IF r1 = 7 THEN "Q" ELSE "P"))
              ELSE m1
        m3 == IF b[r1, c] = "."
              THEN Append(m2, BuildMove(b, r, c, r1, c, IF r1 = 7 THEN "Q" ELSE "P"))
              ELSE m2
        m4 == IF r = 1 /\ b[2, c] = "." /\ b[3, c] = "."
              THEN Append(m3, BuildMove(b, r, c, r + 2, c, "P"))
              ELSE m3
    IN m4
  ELSE moves

bp_moves(moves, b, r, c) ==
  LET r1 == r - 1 IN
  IF r1 > -1 THEN
    LET m1 == IF c + 1 < N /\ Takes(b, r1, c + 1, white_pieces)
              THEN PawnCaptureInsert(moves,
                     BuildMove(b, r, c, r1, c + 1, IF r1 = 0 THEN "q" ELSE "p"))
              ELSE moves
        m2 == IF c - 1 > -1 /\ Takes(b, r1, c - 1, white_pieces)
              THEN PawnCaptureInsert(m1,
                     BuildMove(b, r, c, r1, c - 1, IF r1 = 0 THEN "q" ELSE "p"))
              ELSE m1
        m3 == IF b[r1, c] = "."
              THEN Append(m2, BuildMove(b, r, c, r1, c, IF r1 = 0 THEN "q" ELSE "p"))
              ELSE m2
        m4 == IF r = 6 /\ b[5, c] = "." /\ b[4, c] = "."
              THEN Append(m3, BuildMove(b, r, c, r - 2, c, "p"))
              ELSE m3
    IN m4
  ELSE moves

\* line 199: player's own piece is blocking the move
OwnPieceBlocks(b, color, r1, c1) ==
  \/ (b[r1, c1] \in white_pieces /\ color = "w")
  \/ (b[r1, c1] \in black_pieces /\ color = "b")

\* a capture that always goes to the front of the list
CaptureAlwaysFront(moves, b, r, c, r1, c1, move) == InsertFront(moves, move)

\* lines 207-211: a capture goes to the front only when the captured piece
\* weighs more than the capturing one, and to the back otherwise
PlaceCapture(moves, b, r, c, r1, c1, move) ==
  IF Abs(pieces_wgt(b[r1, c1])) > Abs(pieces_wgt(b[r, c]))
  THEN InsertFront(moves, move)
  ELSE Append(moves, move)

RECURSIVE add_move_in_dir(_, _, _, _, _, _, _, _)
add_move_in_dir(moves, b, color, r, c, dr, dc, depth) ==
  LET r1 == r + depth * dr
      c1 == c + depth * dc
  IN
  IF r1 \notin Rows \/ c1 \notin Rows THEN moves
  ELSE IF OwnPieceBlocks(b, color, r1, c1) THEN moves
  ELSE IF \/ (b[r1, c1] \in black_pieces /\ color = "w")
          \/ (b[r1, c1] \in white_pieces /\ color = "b")
  THEN PlaceCapture(moves, b, r, c, r1, c1, BuildMove(b, r, c, r1, c1, b[r, c]))
  ELSE IF b[r1, c1] = "."
  THEN LET ms == Append(moves, BuildMove(b, r, c, r1, c1, b[r, c])) IN
       IF b[r, c] \in single_move_pieces THEN ms
       ELSE add_move_in_dir(ms, b, color, r, c, dr, dc, depth + 1)
  ELSE moves

\* add_move_in_dir for each direction of dirs, in order
RECURSIVE InDirs(_, _, _, _, _, _)
InDirs(moves, b, color, r, c, dirs) ==
  IF dirs = <<>> THEN moves
  ELSE Then(add_move_in_dir(moves, b, color, r, c, Head(dirs)[1], Head(dirs)[2], 1),
            LAMBDA ms : InDirs(ms, b, color, r, c, Tail(dirs)))

RookDirs == << <<1, 0>>, <<-1, 0>>, <<0, 1>>, <<0, -1>> >>
BishopDirs == << <<-1, -1>>, <<-1, 1>>, <<1, -1>>, <<1, 1>> >>

\* for dr in xs: for dc in ys: the offsets (dr, dc) in loop order
OffsetLoop(xs, ys) ==
  [k \in 1 .. Len(xs) * Len(ys) |->
     <<xs[((k - 1) \div Len(ys)) + 1], ys[((k - 1) % Len(ys)) + 1]>>]

\* line 180: abs(dr) + abs(dc) is 3
KnightOffsetOk(dr, dc) == Abs(dr) + Abs(dc) = 3

\* line 187: "abs(dr) + abs(dc) is 1 or 2" parses as "(... is 1) or 2", and 2 is
\* true: the filter admits every offset, (0, 0) included
KingOffsetOk(dr, dc) == (Abs(dr) + Abs(dc) = 1) \/ TRUE

KnightDirs ==
  SelectSeq(OffsetLoop(<<-2, -1, 1, 2>>, <<-2, -1, 1, 2>>),
            LAMBDA d : KnightOffsetOk(d[1], d[2]))
KingDirs ==
  SelectSeq(OffsetLoop(<<-1, 0, 1>>, <<-1, 0, 1>>),
            LAMBDA d : KingOffsetOk(d[1], d[2]))

r_moves(moves, b, color, r, c) == InDirs(moves, b, color, r, c, RookDirs)
b_moves(moves, b, color, r, c) == InDirs(moves, b, color, r, c, BishopDirs)
q_moves(moves, b, color, r, c) ==
  b_moves(r_moves(moves, b, color, r, c), b, color, r, c)
n_moves(moves, b, color, r, c) == InDirs(moves, b, color, r, c, KnightDirs)
k_moves(moves, b, color, r, c) == InDirs(moves, b, color, r, c, KingDirs)

\* the body of the loops of possible_moves for one cell
PieceMoves(moves, b, color, r, c) ==
  LET p == b[r, c] IN
  IF color = "w" THEN
    CASE p = "P" -> wp_moves(moves, b, r, c)
      [] p = "R" -> r_moves(moves, b, color, r, c)
      [] p = "B" -> b_moves(moves, b, color, r, c)
      [] p = "N" -> n_moves(moves, b, color, r, c)
      [] p = "Q" -> q_moves(moves, b, color, r, c)
      [] p = "K" -> k_moves(moves, b, color, r, c)
      [] OTHER -> moves
  ELSE IF color = "b" THEN
    CASE p = "p" -> bp_moves(moves, b, r, c)
      [] p = "r" -> r_moves(moves, b, color, r, c)
      [] p = "b" -> b_moves(moves, b, color, r, c)
      [] p = "n" -> n_moves(moves, b, color, r, c)
      [] p = "q" -> q_moves(moves, b, color, r, c)
      [] p = "k" -> k_moves(moves, b, color, r, c)
      [] OTHER -> moves
  ELSE moves

\* for c in range(0, 8), from column c on
RECURSIVE ScanCols(_, _, _, _, _)
ScanCols(moves, b, color, r, c) ==
  IF c >= N THEN moves
  ELSE Then(PieceMoves(moves, b, color, r, c),
            LAMBDA ms : ScanCols(ms, b, color, r, c + 1))

\* for r in range(0, 8), from row r on
RECURSIVE ScanRows(_, _, _, _)
ScanRows(moves, b, color, r) ==
  IF r >= N THEN moves
  ELSE Then(ScanCols(moves, b, color, r, 0),
            LAMBDA ms : ScanRows(ms, b, color, r + 1))

possible_moves(b, color) == ScanRows(<<>>, b, color, 0)

\* ---------------------------------------------------------------- evaluator
\* material(): the signed weights of the whole board, seen from player_color
RECURSIVE white_pts(_, _)
white_pts(b, k) ==
  IF k >= N * N THEN 0
  ELSE (IF b[k \div N, k % N] # "." THEN pieces_wgt(b[k \div N, k % N]) ELSE 0)
       + white_pts(b, k + 1)

material(b, pcolor) == IF pcolor = "w" THEN white_pts(b, 0) ELSE -1 * white_pts(b, 0)

\* a pawn_structure that counts a defended pawn once
DefendersOnce(b, pawn, br, c) ==
  IF \/ (br \in Rows /\ (c - 1) \in Rows /\ b[br, c - 1] = pawn)
     \/ (br \in Rows /\ (c + 1) \in Rows /\ b[br, c + 1] = pawn)
  THEN 1 ELSE 0

\* lines 279-282 and 291-294: pts += 1 for each of the two diagonal tests of the
\* pawn at (r, c); br is the row behind it
Defenders(b, pawn, br, c) ==
  (IF br \in Rows /\ (c - 1) \in Rows /\ b[br, c - 1] = pawn THEN 1 ELSE 0)
  + (IF br \in Rows /\ (c + 1) \in Rows /\ b[br, c + 1] = pawn THEN 1 ELSE 0)

RECURSIVE PawnScan(_, _, _)
PawnScan(b, pcolor, k) ==
  IF k >= N * N THEN 0
  ELSE LET r == k \div N
           c == k % N
       IN (IF pcolor = "w"
           THEN (IF b[r, c] = "P" THEN Defenders(b, "P", r - 1, c) ELSE 0)
           ELSE (IF b[r, c] = "p" THEN Defenders(b, "p", r + 1, c) ELSE 0))
          + PawnScan(b, pcolor, k + 1)

\* pawn_structure(state): a count of pawns, not yet in units of 1/Quarter
pawn_structure(b, player_turn, pcolor) ==
  IF player_turn THEN PawnScan(b, pcolor, 0) ELSE 0

\* the inner loop of mobility for one move
MoveSquares(m) ==
  LET keys == DOMAIN m.changes
      Val(key) == IF m.changes[key] \notin {".", "K", "k"}
                     /\ in_square_values(key[1], key[2])
                  THEN square_values(key[1], key[2]) ELSE 0
      RECURSIVE Sum(_)
      Sum(S) == IF S = {} THEN 0
                ELSE LET x == CHOOSE y \in S : TRUE IN Val(x) + Sum(S \ {x})
  IN Sum(keys)

RECURSIVE SumSquares(_, _)
SumSquares(ms, i) ==
  IF i > Len(ms) THEN 0 ELSE MoveSquares(ms[i]) + SumSquares(ms, i + 1)

\* mobility(state), over the moves of state.get_successors()
mobility(ms, player_turn) ==
  IF player_turn THEN SumSquares(ms, 1) ELSE -1 * SumSquares(ms, 1)

\* evaluate(state), in units of 1/Quarter
evaluate(b, player_turn, pcolor, ms) ==
  material_wgt * material(b, pcolor)
  + pawn_structure_wgt * Quarter * pawn_structure(b, player_turn, pcolor)
  + mobility_wgt * mobility(ms, player_turn)

\* ------------------------------------------------------------ State objects
\* state.move of the root
None == [changes |-> <<>>, undo_changes |-> <<>>]

\* State(move, player_turn); successors holds the heap indices of the children
NewState(move, player_turn) ==
  [move |-> move, val |-> 0, player_turn |-> player_turn, successors |-> <<>>]

opponent_of(pcolor) == IF pcolor = "w" THEN "b" ELSE "w"

\* a terminal test that looks at undo_changes alone
is_game_over_any_king(s) ==
  /\ s.move # None
  /\ \E key \in DOMAIN s.move.undo_changes : s.move.undo_changes[key] \in {"K", "k"}

is_game_over(s) ==
  /\ s.move # None
  /\ \E key \in DOMAIN s.move.undo_changes :
       \/ (s.move.undo_changes[key] = "K" /\ s.move.changes[key] \in black_pieces)
       \/ (s.move.undo_changes[key] = "k" /\ s.move.changes[key] \in white_pieces)

\* line 32: the test that decides whether get_successors generates
NeedsGeneration(s) == Len(s.successors) = 0

\* State.get_successors on heap h: the heap after the call
get_successors(h, id, b, pcolor) ==
  IF NeedsGeneration(h[id])
  THEN LET moves == possible_moves(b, IF h[id].player_turn THEN pcolor
                                      ELSE opponent_of(pcolor))
           kids == [i \in 1 .. Len(moves) |->
                      NewState(moves[i], IF h[id].player_turn THEN FALSE ELSE TRUE)]
       IN [h EXCEPT ![id].successors = [i \in 1 .. Len(moves) |-> Len(h) + i]] \o kids
  ELSE h

\* the moves of the children of h[id]
SuccessorMoves(h, id) ==
  [i \in 1 .. Len(h[id].successors) |-> h[h[id].successors[i]].move]

\* a cutoff test with the comparison turned round
PrunedInverted(alpha, beta) == alpha <= beta

\* lines 322 and 332: if beta <= alpha: break
Pruned(alpha, beta) == beta <= alpha

\* printout(): the 64 symbols, row 0 first
printout(b) == [k \in 1 .. N * N |-> b[(k - 1) \div N, (k - 1) % N]]

\* get_2d_board(strBoard)
get_2d_board(strBoard) == [x \in Cells |-> strBoard[x[1] * N + x[2] + 1]]

\* -------------------------------------------------------------------- state
VARIABLES
  input,         \* sys.argv[2]: the 64 symbols of the board loaded at start
  player_color,  \* sys.argv[1]
  board,         \* the one shared board
  heap,          \* the State objects made so far; heap[1] is current, the root
  stack,         \* the active calls of alphabeta, the root call first
  d,             \* the driver's loop variable
  phase,         \* where the program is: idle, search, print, unmake; gen, listed,
                 \* counted when only the generator or pawn_structure is run
  sel,           \* the driver's next_state once a child is chosen, else 0
  output,        \* what printout() has printed, one entry per call
  parent,        \* per State, the State whose get_successors made it (0: the root)
  gen_runs,      \* per State, how often possible_moves has run for it
  fresh,         \* the root children alphabeta was called on in this round
  sought,        \* the last get_successors call: the State, whether its list was
                 \* cached, and the board at the call
  made,          \* the last make(): the State whose move was made and the board
                 \* just before
  listing,       \* the last possible_moves call: [color, moves]
  structure      \* the last pawn_structure call: [turn, pts]

vars == <<input, player_color, board, heap, stack, d, phase, sel, output, parent,
          gen_runs, fresh, sought, made, listing, structure>>

genvars == <<listing, structure>>

\* the 64 symbols of a board with the pieces of pl, a set of <<r, c, piece>>
Symbols(pl) ==
  [k \in 1 .. N * N |->
     IF \E x \in pl : x[1] * N + x[2] + 1 = k
     THEN (CHOOSE x \in pl : x[1] * N + x[2] + 1 = k)[3]
     ELSE "."]

\* the board loaded at start
Loaded == get_2d_board(input)

\* the boards the search is run from
SearchBoards ==
  { \* a pawn that can take the king at once
    {<<0, 0, "K">>, <<3, 3, "P">>, <<4, 4, "k">>},
    \* kings and pawns far apart
    {<<0, 0, "K">>, <<1, 1, "P">>, <<6, 6, "p">>, <<7, 7, "k">>},
    \* Black cannot move at all
    {<<0, 0, "K">>, <<2, 7, "P">>, <<3, 7, "p">>},
    \* the king's third move blocks Black's only piece
    {<<3, 3, "K">>, <<3, 4, "p">>},
    \* promotion, with and without the capture of the king
    {<<0, 7, "K">>, <<6, 0, "P">>, <<7, 1, "k">>},
    \* knights
    {<<0, 0, "N">>, <<1, 2, "p">>, <<7, 7, "n">>},
    \* pawn chains
    {<<1, 1, "P">>, <<1, 3, "P">>, <<2, 2, "P">>, <<3, 3, "p">>, <<4, 2, "p">>} }

Frame(id, depth, alpha, beta) ==
  [state |-> id, depth |-> depth, alpha |-> alpha, beta |-> beta,
   pc |-> "enter", i |-> 0]

Top == stack[Len(stack)]

InitCommon ==
  /\ player_color \in {"w", "b"}
  /\ board = get_2d_board(input)
  /\ heap = <<NewState(None, TRUE)>>
  /\ stack = <<>>
  /\ d = FirstRound
  /\ sel = 0
  /\ output = <<>>
  /\ parent = <<0>>
  /\ gen_runs = <<0>>
  /\ fresh = {}
  /\ sought = [id |-> 0, cached |-> FALSE, board |-> board]
  /\ made = [id |-> 0, board |-> board]
  /\ listing = [color |-> "", moves |-> <<>>]
  /\ structure = [turn |-> FALSE, pts |-> -1]

Init ==
  /\ input \in {Symbols(pl) : pl \in SearchBoards}
  /\ phase = "idle"
  /\ InitCommon

\* one call of state.get_successors() for heap[id], which leaves heap h1
Successors(id, h1) ==
  /\ h1 = get_successors(heap, id, board, player_color)
  /\ parent' = [i \in 1 .. Len(h1) |-> IF i <= Len(parent) THEN parent[i] ELSE id]
  /\ gen_runs' = [i \in 1 .. Len(h1) |->
                    IF i > Len(gen_runs) THEN 0
                    ELSE IF i = id /\ NeedsGeneration(heap[id]) THEN gen_runs[i] + 1
                    ELSE gen_runs[i]]
  /\ sought' = [id |-> id, cached |-> ~NeedsGeneration(heap[id]), board |-> board]

\* ------------------------------------------------------------------- search
\* line 400: score = alphabeta(current, d)
CallRoot ==
  /\ phase = "idle"
  /\ d <= MaxRound
  /\ phase' = "search"
  /\ stack' = <<Frame(1, d, -Inf, Inf)>>
  /\ fresh' = {}
  /\ UNCHANGED <<input, player_color, board, heap, d, sel, output, parent, gen_runs,
                 sought, made>>
  /\ UNCHANGED genvars

\* lines 310-312: depth == 0 or is_game_over(state): state.val = evaluate(state),
\* whose mobility calls state.get_successors()
Leaf ==
  /\ phase = "search" /\ stack # <<>> /\ Top.pc = "enter"
  /\ Top.depth = 0 \/ is_game_over(heap[Top.state])
  /\ \E h1 \in {get_successors(heap, Top.state, board, player_color)} :
       /\ Successors(Top.state, h1)
       /\ \E ms \in {SuccessorMoves(h1, Top.state)} :
            heap' = [h1 EXCEPT ![Top.state].val =
                       evaluate(board, heap[Top.state].player_turn, player_color, ms)]
  /\ stack' = [stack EXCEPT ![Len(stack)].pc = "done"]
  /\ fresh' = IF Len(stack) = 2 THEN fresh \cup {Top.state} ELSE fresh
  /\ UNCHANGED <<input, player_color, board, d, phase, sel, output, made>>
  /\ UNCHANGED genvars

\* lines 313-315 and 325-327: state.val = -inf or +inf, then the loop over
\* state.get_successors() starts
Enter ==
  /\ phase = "search" /\ stack # <<>> /\ Top.pc = "enter"
  /\ ~(Top.depth = 0 \/ is_game_over(heap[Top.state]))
  /\ \E h1 \in {get_successors(heap, Top.state, board, player_color)} :
       /\ Successors(Top.state, h1)
       /\ heap' = [h1 EXCEPT ![Top.state].val =
                     IF heap[Top.state].player_turn THEN -Inf ELSE Inf]
  /\ stack' = [stack EXCEPT ![Len(stack)].pc = "loop", ![Len(stack)].i = 1]
  /\ fresh' = IF Len(stack) = 2 THEN fresh \cup {Top.state} ELSE fresh
  /\ UNCHANGED <<input, player_color, board, d, phase, sel, output, made>>
  /\ UNCHANGED genvars

\* lines 318-319 and 328-329: next_state.move.make(), then the recursive call
MakeChild ==
  /\ phase = "search" /\ stack # <<>> /\ Top.pc = "loop"
  /\ Top.i <= Len(heap[Top.state].successors)
  /\ LET kid == heap[Top.state].successors[Top.i]
     IN /\ board' = make(board, heap[kid].move)
        /\ made' = [id |-> kid, board |-> board]
        /\ stack' = Append(stack, Frame(kid, Top.depth - 1, Top.alpha, Top.beta))
  /\ UNCHANGED <<input, player_color, heap, d, phase, sel, output, parent, gen_runs,
                 fresh, sought>>
  /\ UNCHANGED genvars

\* lines 319-323 and 329-333: the call returned: max or min into state.val,
\* unmake, the new alpha or beta, and the break
ReturnChild ==
  /\ phase = "search" /\ Len(stack) >= 2 /\ Top.pc = "done"
  /\ LET n      == Len(stack)
         par    == stack[n - 1]
         pid    == par.state
         ret    == heap[Top.state].val
         maxi   == heap[pid].player_turn
         v      == IF maxi THEN Max(heap[pid].val, ret) ELSE Min(heap[pid].val, ret)
         alpha1 == IF maxi THEN Max(par.alpha, v) ELSE par.alpha
         beta1  == IF maxi THEN par.beta ELSE Min(par.beta, v)
     IN /\ heap' = [heap EXCEPT ![pid].val = v]
        /\ board' = unmake(board, heap[Top.state].move)
        /\ stack' = [SubSeq(stack, 1, n - 1) EXCEPT
                       ![n - 1].alpha = alpha1,
                       ![n - 1].beta = beta1,
                       ![n - 1].pc = IF Pruned(alpha1, beta1) THEN "done" ELSE "loop",
                       ![n - 1].i = IF Pruned(alpha1, beta1) THEN par.i ELSE par.i + 1]
  /\ UNCHANGED <<input, player_color, d, phase, sel, output, parent, gen_runs, fresh,
                 sought, made>>
  /\ UNCHANGED genvars

\* lines 324 and 334: the loop ran out of children: return state.val
LoopEnd ==
  /\ phase = "search" /\ stack # <<>> /\ Top.pc = "loop"
  /\ Top.i > Len(heap[Top.state].successors)
  /\ stack' = [stack EXCEPT ![Len(stack)].pc = "done"]
  /\ UNCHANGED <<input, player_color, board, heap, d, phase, sel, output, parent,
                 gen_runs, fresh, sought, made>>
  /\ UNCHANGED genvars

\* ------------------------------------------------------------------- driver
\* a driver that takes the first child whatever its val
FirstChild(h) == IF Len(h[1].successors) = 0 THEN 0 ELSE h[1].successors[1]

\* lines 401-402: the child at which the driver's loop stops, the first in list
\* order with next_state.val == current.val; 0 when it stops at none
Chosen(h) ==
  LET kids == h[1].successors
      hits == {i \in 1 .. Len(kids) : h[kids[i]].val = h[1].val}
  IN IF hits = {} THEN 0 ELSE kids[CHOOSE i \in hits : \A j \in hits : i <= j]

\* lines 401-403: alphabeta has returned; the loop over current.get_successors()
\* up to next_state.move.make()
DriverScan ==
  /\ phase = "search" /\ Len(stack) = 1 /\ Top.pc = "done"
  /\ \E h1 \in {get_successors(heap, 1, board, player_color)} :
       /\ Successors(1, h1)
       /\ heap' = h1
       /\ \E k \in {Chosen(h1)} :
            /\ sel' = k
            /\ IF k = 0
               THEN /\ board' = board
                    /\ made' = made
                    /\ phase' = "idle"
                    /\ d' = d + 1
               ELSE /\ board' = make(board, h1[k].move)
                    /\ made' = [id |-> k, board |-> board]
                    /\ phase' = "print"
                    /\ d' = d
  /\ stack' = <<>>
  /\ UNCHANGED <<input, player_color, output, fresh>>
  /\ UNCHANGED genvars

\* line 404: printout()
DriverPrint ==
  /\ phase = "print"
  /\ output' = Append(output, printout(board))
  /\ phase' = "unmake"
  /\ UNCHANGED <<input, player_color, board, heap, stack, d, sel, parent, gen_runs,
                 fresh, sought, made>>
  /\ UNCHANGED genvars

\* lines 405-406 and 399: next_state.move.unmake(), break, the next d
DriverUnmake ==
  /\ phase = "unmake"
  /\ board' = unmake(board, heap[sel].move)
  /\ phase' = "idle"
  /\ d' = d + 1
  /\ UNCHANGED <<input, player_color, heap, stack, sel, output, parent, gen_runs,
                 fresh, sought, made>>
  /\ UNCHANGED genvars

Next ==
  \/ CallRoot
  \/ Leaf
  \/ Enter
  \/ MakeChild
  \/ ReturnChild
  \/ LoopEnd
  \/ DriverScan
  \/ DriverPrint
  \/ DriverUnmake

Spec == Init /\ [][Next]_vars

\* ------------------------------------- the generator and pawn_structure alone
\* the boards possible_moves and pawn_structure are run on, before the extras
GenBoards ==
  { \* a rook beside a pawn it can take
    {<<2, 2, "R">>, <<2, 3, "p">>},
    \* pawns defended once and twice, of both colours
    {<<1, 1, "P">>, <<1, 3, "P">>, <<2, 2, "P">>, <<2, 4, "P">>,
     <<5, 5, "p">>, <<6, 4, "p">>, <<6, 6, "p">>},
    \* a pawn's capture, and a knight scanned later that takes a queen
    {<<1, 1, "P">>, <<2, 2, "n">>, <<4, 4, "N">>, <<6, 5, "q">>,
     <<6, 7, "p">>, <<5, 6, "R">>, <<7, 0, "n">>, <<5, 1, "Q">>},
    \* kings hemmed in by their own pieces
    {<<0, 0, "K">>, <<0, 1, "N">>, <<1, 0, "P">>, <<7, 7, "k">>, <<6, 7, "p">>},
    \* promotions
    {<<6, 3, "P">>, <<7, 4, "r">>, <<1, 4, "p">>, <<0, 3, "B">>},
    \* sliding pieces
    {<<3, 3, "Q">>, <<1, 1, "B">>, <<3, 6, "r">>, <<5, 5, "b">>, <<6, 0, "q">>} }

\* what is added to a scenario: up to MaxExtra of these pieces on these cells
ExtraPieces == {"P", "p", "N", "q", "K"}
ExtraCells == {x \in Cells : x[1] \in 1 .. 3 /\ x[2] <= 2}
Extras == {<<x[1], x[2], p>> : x \in ExtraCells, p \in ExtraPieces}

\* the sets of at most n extras, no two on one cell
RECURSIVE ExtraSets(_)
ExtraSets(n) ==
  IF n = 0 THEN {{}}
  ELSE ExtraSets(n - 1) \cup
       {ex \cup {e} : ex \in ExtraSets(n - 1), e \in Extras}

Occupied(pl) == {<<x[1], x[2]>> : x \in pl}

\* the extras that fit scenario pl
FittingExtras(pl) ==
  {ex \in ExtraSets(MaxExtra) :
     /\ Cardinality(Occupied(ex)) = Cardinality(ex)
     /\ Occupied(ex) \cap Occupied(pl) = {}}

GenInputs ==
  UNION {{Symbols(pl \cup ex) : ex \in FittingExtras(pl)} : pl \in GenBoards}

InitGen ==
  /\ input \in GenInputs
  /\ phase = "gen"
  /\ InitCommon

\* possible_moves(color) on the loaded board
Generate(color) ==
  /\ phase = "gen"
  /\ listing' = [color |-> color, moves |-> possible_moves(board, color)]
  /\ phase' = "listed"
  /\ UNCHANGED <<input, player_color, board, heap, stack, d, sel, output, parent,
                 gen_runs, fresh, sought, made, structure>>

\* pawn_structure(state) on the loaded board, for a State with this player_turn
CountPawns(turn) ==
  /\ phase = "gen"
  /\ structure' = [turn |-> turn, pts |-> pawn_structure(board, turn, player_color)]
  /\ phase' = "counted"
  /\ UNCHANGED <<input, player_color, board, heap, stack, d, sel, output, parent,
                 gen_runs, fresh, sought, made, listing>>

NextGen ==
  \/ \E color \in {"w", "b"} : Generate(color)
  \/ \E turn \in BOOLEAN : CountPawns(turn)

SpecGen == InitGen /\ [][NextGen]_vars

\* ------------------------------------------------------------------- claims
\* the cell a move fills and the cell it clears
IsDest(m, x) == x \in DOMAIN m.changes /\ m.changes[x] # "."
IsOrigin(m, x) == x \in DOMAIN m.changes /\ m.changes[x] = "."
\* the piece that moves: what stood on the cell the move clears
MovedBy(m, pieces) == \E x \in Cells : IsOrigin(m, x) /\ m.undo_changes[x] \in pieces
\* the move takes a piece of the set
TakesOneOf(m, pieces) == \E x \in Cells : IsDest(m, x) /\ m.undo_changes[x] \in pieces
IsCapture(m) == TakesOneOf(m, white_pieces \cup black_pieces)
OwnPieces(color) == IF color = "w" THEN white_pieces ELSE black_pieces

\* the loaded board with the moves now in flight made, outermost first
RECURSIVE MadeUpTo(_)
MadeUpTo(k) ==
  IF k <= 1 THEN Loaded ELSE make(MadeUpTo(k - 1), heap[stack[k].state].move)

RootReturned == phase = "search" /\ Len(stack) = 1 /\ Top.pc = "done"

\* C1: every make() is undone by its unmake() in LIFO order: at every step the
\* board is the loaded board with exactly the moves in flight made, so it is the
\* loaded board cell for cell whenever alphabeta(root, d) has returned and after
\* the print step of every round
C1_BoardRestored ==
  /\ phase \in {"idle", "search"} => board = MadeUpTo(Len(stack))
  /\ phase \in {"print", "unmake"} => board = make(Loaded, heap[sel].move)
  /\ RootReturned => board = Loaded
  /\ phase = "idle" => board = Loaded

\* two rounds, d = 2 and d = 3, have run back to back and printed
C1_Witness ==
  /\ phase = "idle" /\ d = FirstRound + 2 /\ Len(output) = 2
  /\ board = Loaded /\ Len(heap) > 50

\* the move into this State took a king / moved a king onto an empty square
KingTaken(m) ==
  \E x \in Cells :
    /\ IsDest(m, x)
    /\ \/ m.undo_changes[x] = "K" /\ m.changes[x] \in black_pieces
       \/ m.undo_changes[x] = "k" /\ m.changes[x] \in white_pieces
KingStepped(m) ==
  /\ MovedBy(m, {"K", "k"})
  /\ \E x \in Cells : IsDest(m, x) /\ m.undo_changes[x] = "."

\* evaluate(state) computed afresh from the board
EvaluateOn(b, turn) ==
  evaluate(b, turn, player_color,
           possible_moves(b, IF turn THEN player_color ELSE opponent_of(player_color)))

\* C2: a call of alphabeta on a State whose move took a king returns
\* evaluate(state) at every depth and makes no child move; a State reached by a
\* king stepping onto an empty square, and the root, are not terminal: with depth
\* left they are expanded
C2_KingCaptureTerminal ==
  \A k \in 1 .. Len(stack) :
    LET f == stack[k]
        s == heap[f.state]
    IN /\ (s.move # None /\ KingTaken(s.move)) =>
            /\ f.pc \in {"enter", "done"} /\ f.i = 0
            /\ f.pc = "done" => s.val = EvaluateOn(MadeUpTo(k), s.player_turn)
       /\ (f.depth > 0 /\ (s.move = None \/ KingStepped(s.move))) =>
            (f.pc = "enter" \/ f.i >= 1)
       /\ (f.pc = "done" /\ f.i = 0) =>
            s.val = EvaluateOn(MadeUpTo(k), s.player_turn)

\* a call with depth left has returned at a State whose move took a king, while
\* a State reached by a king's step is being expanded
C2_Witness ==
  /\ Len(stack) = 3
  /\ KingStepped(heap[stack[2].state].move) /\ stack[2].pc = "loop"
  /\ KingTaken(heap[stack[3].state].move)
  /\ stack[3].pc = "done" /\ stack[3].depth >= 1

\* C3: no move of possible_moves(color) lands on a cell that held a piece of the
\* mover's colour: every move clears one cell and fills another, and the cell
\* it fills held no own piece; in particular no king move lands on the king's
\* own square
C3_NoOwnDestination ==
  phase = "listed" =>
    \A i \in 1 .. Len(listing.moves) :
      LET m == listing.moves[i]
      IN /\ Cardinality(DOMAIN m.changes) = 2
         /\ \E x \in Cells : IsDest(m, x)
         /\ \E x \in Cells : IsOrigin(m, x)
         /\ \A x \in Cells : IsDest(m, x) => board[x] \notin OwnPieces(listing.color)

\* White's list on a board where the king at (0, 0) stands beside its own knight
\* and pawn, a white pawn can take, and the king has a move
C3_Witness ==
  /\ phase = "listed" /\ listing.color = "w"
  /\ board[0, 0] = "K" /\ board[0, 1] = "N" /\ board[1, 0] = "P"
  /\ \E i \in 1 .. Len(listing.moves) : MovedBy(listing.moves[i], {"K"})
  /\ \E i \in 1 .. Len(listing.moves) :
       MovedBy(listing.moves[i], {"P"}) /\ IsCapture(listing.moves[i])

\* the scenario of C4: White's list on a board with R at (2, 2) and p at (2, 3)
RookScenario ==
  /\ phase = "listed" /\ listing.color = "w"
  /\ board[2, 2] = "R" /\ board[2, 3] = "p"
RookMove(m) == IsOrigin(m, <<2, 2>>)
RookTakesPawn(m) == RookMove(m) /\ IsDest(m, <<2, 3>>)
RookQuiet(m) == RookMove(m) /\ ~IsCapture(m)

\* C4 as claimed: the rook's capture of the pawn comes before every
\* non-capturing move of that rook
C4_CaptureFirst ==
  RookScenario =>
    \E i \in 1 .. Len(listing.moves) :
      /\ RookTakesPawn(listing.moves[i])
      /\ \A j \in 1 .. Len(listing.moves) : RookQuiet(listing.moves[j]) => i < j

\* C4 as amended: the capture of the pawn (worth less than the rook) is appended
\* in direction order: it comes after every non-capturing move of the rook along
\* its column and before every non-capturing move of the rook along (0, -1)
C4_CaptureInDirectionOrder ==
  RookScenario =>
    \E i \in 1 .. Len(listing.moves) :
      /\ RookTakesPawn(listing.moves[i])
      /\ \A j \in 1 .. Len(listing.moves) :
           RookQuiet(listing.moves[j]) =>
             /\ IsDest(listing.moves[j], <<2, 0>>) \/ IsDest(listing.moves[j], <<2, 1>>)
                  => i < j
             /\ (\E r \in Rows : IsDest(listing.moves[j], <<r, 2>>)) => j < i

\* the rook has quiet moves up and down its column and along (0, -1)
C4_Witness ==
  /\ RookScenario
  /\ \E j \in 1 .. Len(listing.moves) :
       RookQuiet(listing.moves[j]) /\ IsDest(listing.moves[j], <<3, 2>>)
  /\ \E j \in 1 .. Len(listing.moves) :
       RookQuiet(listing.moves[j]) /\ IsDest(listing.moves[j], <<1, 2>>)
  /\ \E j \in 1 .. Len(listing.moves) :
       RookQuiet(listing.moves[j]) /\ IsDest(listing.moves[j], <<2, 1>>)

\* C5: possible_moves runs at most once for each State
C5_GeneratedOnce == \A id \in 1 .. Len(gen_runs) : gen_runs[id] <= 1

\* C6: a round whose root has moves prints exactly one board: the loaded board
\* with the move of the first root child, in generation order, whose val is the
\* root's val; that child was searched in this round, and its move is undone
\* before the next round
C6_DriverPrints ==
  /\ phase = "unmake" =>
       /\ sel \in fresh
       /\ \E i \in 1 .. Len(heap[1].successors) :
            /\ heap[1].successors[i] = sel
            /\ heap[sel].val = heap[1].val
            /\ \A j \in 1 .. (i - 1) : heap[heap[1].successors[j]].val # heap[1].val
            /\ heap[sel].move = possible_moves(Loaded, player_color)[i]
       /\ output[Len(output)] = printout(make(Loaded, heap[sel].move))
       /\ Len(output) = d - FirstRound + 1
  /\ (phase = "idle" /\ Len(heap[1].successors) > 0) =>
       /\ Len(output) = d - FirstRound
       /\ board = Loaded

\* round d = 3 has printed the move of a child that is not the first, while
\* children after it were not searched in this round and keep an older val
C6_Witness ==
  /\ phase = "unmake" /\ d = FirstRound + 1
  /\ sel # heap[1].successors[1]
  /\ \E i \in 1 .. Len(heap[1].successors) : heap[1].successors[i] \notin fresh

\* unpruned minimax of the given depth below the State reached by move m
RECURSIVE Minimax(_, _, _, _)
Minimax(b, m, turn, depth) ==
  IF depth = 0 \/ is_game_over(NewState(m, turn)) THEN EvaluateOn(b, turn)
  ELSE LET vals ==
             UNION {{Minimax(make(b, ms[i]), ms[i], ~turn, depth - 1) :
                       i \in 1 .. Len(ms)} :
                    ms \in {possible_moves(b, IF turn THEN player_color
                                              ELSE opponent_of(player_color))}}
       IN IF turn
          THEN CHOOSE v \in vals \cup {-Inf} : \A w \in vals : v >= w
          ELSE CHOOSE v \in vals \cup {Inf} : \A w \in vals : v <= w

\* C7: alphabeta(root, d) with the full window returns the unpruned minimax
\* value of depth d, and the first root child that attains it holds its own
\* exact minimax value
C7_EqualsMinimax ==
  RootReturned =>
    /\ heap[1].val = Minimax(Loaded, None, TRUE, d)
    /\ \A i \in 1 .. Len(heap[1].successors) :
         LET kid == heap[heap[1].successors[i]]
         IN (/\ kid.val = heap[1].val
             /\ \A j \in 1 .. (i - 1) : heap[heap[1].successors[j]].val # heap[1].val)
            => kid.val = Minimax(make(Loaded, kid.move), kid.move, FALSE, d - 1)

\* alphabeta(root, 3) has returned a finite value although a cutoff left some
\* root child with a bound that is not its minimax value
C7_Witness ==
  /\ RootReturned /\ d = FirstRound + 1
  /\ heap[1].val \notin {Inf, -Inf}
  /\ \E i \in 1 .. Len(heap[1].successors) :
       LET kid == heap[heap[1].successors[i]]
       IN /\ heap[1].successors[i] \in fresh
          /\ kid.val # Minimax(make(Loaded, kid.move), kid.move, FALSE, d - 1)

\* the loaded board with the moves on the path from the root to State id made
RECURSIVE PathBoard(_)
PathBoard(id) ==
  IF parent[id] = 0 THEN Loaded ELSE make(PathBoard(parent[id]), heap[id].move)

\* C8: whenever get_successors is called on a State with a cached, non-empty
\* list, the board is the loaded board with exactly the moves on the path to that
\* State made; and for every move that is made, its undo_changes are the board's
\* contents, just before, at the cells it touches
C8_CachedBoard ==
  /\ sought.cached => sought.board = PathBoard(sought.id)
  /\ made.id # 0 =>
       \A x \in DOMAIN heap[made.id].move.changes :
         made.board[x] = heap[made.id].move.undo_changes[x]

\* a cached list was used two plies below the root, and its moves are being made
C8_Witness ==
  /\ sought.cached /\ sought.id # 0
  /\ parent[sought.id] > 1
  /\ made.id # 0 /\ parent[made.id] = sought.id

\* a capture the generator puts at the front of the list
IsPawnCapture(m) == MovedBy(m, {"P", "p"}) /\ IsCapture(m)
FrontInserted(m) ==
  \/ IsPawnCapture(m)
  \/ \E x \in Cells, y \in Cells :
       /\ IsDest(m, x) /\ IsOrigin(m, y) /\ m.undo_changes[x] # "."
       /\ Abs(pieces_wgt(m.undo_changes[x])) > Abs(pieces_wgt(m.undo_changes[y]))
\* the place in the scan of the cell a move starts from
ScanIndex(m) == CHOOSE k \in 0 .. (N * N - 1) : IsOrigin(m, <<k \div N, k % N>>)

\* C9 as claimed: no capture by a rook, bishop, queen, knight or king precedes a
\* pawn's diagonal capture in the list
C9_PawnCapturesFirst ==
  phase = "listed" =>
    \A j \in 1 .. Len(listing.moves) : \A i \in 1 .. (j - 1) :
      IsPawnCapture(listing.moves[j]) =>
        ~(IsCapture(listing.moves[i]) /\ ~MovedBy(listing.moves[i], {"P", "p"}))

\* C9 as amended: a pawn's diagonal capture is inserted at the front when it is
\* generated, so whatever precedes it in the list was inserted at the front
\* later in the scan: another pawn capture, or a capture of a piece worth more
\* than the capturing piece
C9_OnlyFrontInsertedBefore ==
  phase = "listed" =>
    \A j \in 1 .. Len(listing.moves) : \A i \in 1 .. (j - 1) :
      IsPawnCapture(listing.moves[j]) =>
        /\ FrontInserted(listing.moves[i])
        /\ ScanIndex(listing.moves[i]) >= ScanIndex(listing.moves[j])

\* a knight's capture of a queen stands before a pawn's capture
C9_Witness ==
  /\ phase = "listed"
  /\ \E j \in 1 .. Len(listing.moves) : \E i \in 1 .. (j - 1) :
       /\ IsPawnCapture(listing.moves[j])
       /\ MovedBy(listing.moves[i], {"N", "n"})
       /\ TakesOneOf(listing.moves[i], {"Q", "q"})

\* the principal player's pawns, and whether one stands behind (r, c) on side dc
PrincipalPawn == IF player_color = "w" THEN "P" ELSE "p"
Behind(r) == IF player_color = "w" THEN r - 1 ELSE r + 1
DefendedFrom(x, dc) ==
  /\ board[x] = PrincipalPawn
  /\ <<Behind(x[1]), x[2] + dc>> \in Cells
  /\ board[<<Behind(x[1]), x[2] + dc>>] = PrincipalPawn

\* C10 as claimed: the number of defended pawns, each counted once
C10_DefendedPawns ==
  phase = "counted" =>
    structure.pts =
      IF structure.turn
      THEN Cardinality({x \in Cells : DefendedFrom(x, -1) \/ DefendedFrom(x, 1)})
      ELSE 0

\* C10 as amended: 0 when player_turn is false, else the number of pairs of a
\* pawn and a pawn defending it: a pawn defended from both sides counts twice
C10_DefenderPairs ==
  phase = "counted" =>
    structure.pts =
      IF structure.turn
      THEN Cardinality({x \in Cells : DefendedFrom(x, -1)})
           + Cardinality({x \in Cells : DefendedFrom(x, 1)})
      ELSE 0

\* a count on the principal player's turn with a pawn defended from both sides
C10_Witness ==
  /\ phase = "counted" /\ structure.turn
  /\ \E x \in Cells : DefendedFrom(x, -1) /\ DefendedFrom(x, 1)
  /\ structure.pts >= 2

====
